---- MODULE Spec2Model ----
(***************************************************************************)
(* Model of fresher's runner3 package: the fsnotify debouncer goroutine of *)
(* Watch(), the build/run loop of start(), build() with its kill-watcher   *)
(* goroutine, run() with its stop-listener goroutine, and Start() (Spec);  *)
(* and of main() calling Watch(), whose walk of the directory tree         *)
(* registers the directories to watch, and then Start() (SpecSetup).       *)
(*                                                                         *)
(* Every goroutine is a process with a program counter; one action is one  *)
(* atomic step between two synchronisation points (channel operation,      *)
(* subprocess call, shared-variable access).  Variables whose name starts  *)
(* with h are history variables: they record what happened and are never   *)
(* read by the program's actions.  Goroutines and subprocesses that can do *)
(* nothing any more are removed from the state.                            *)
(***************************************************************************)
EXTENDS Integers, Sequences, FiniteSets, TLC

\* ------------------------------------------------------------------ bounds
\* Number of raw fsnotify events the environment delivers in one behaviour.
MaxEvents == 2

\* ------------------------------------------------------- program constants
\* cap(eventsChan)
EventsChanCap == 1
\* cap(killBuildingChan)
KillChanCap == 1

\* ------------------------------------------------------------ path strings
\* A path is a sequence of one-character strings.
PathSeparator == "/"

StartupName == <<"/">>
GoFile      == <<"m", ".", "g", "o">>
HtmlFile    == <<"t", ".", "h", "t", "m", "l">>
TxtFile     == <<"n", ".", "t", "x", "t">>

ExtGo   == <<".", "g", "o">>
ExtHtml == <<".", "h", "t", "m", "l">>

\* config.Data().ExtensionsToWatch and .NoRebuildExtensions (built-in defaults)
ExtensionsToWatch   == <<ExtGo, ExtHtml>>

NoRebuildExtensions_empty == <<>>

NoRebuildExtensions == <<ExtHtml>>

\* filepath.Ext: the suffix beginning at the final dot of the final element of
\* path; empty if there is no dot.
RECURSIVE ExtFrom(_, _)
ExtFrom(path, i) ==
    IF i < 1 \/ path[i] = PathSeparator THEN <<>>
    ELSE IF path[i] = "." THEN SubSeq(path, i, Len(path))
    ELSE ExtFrom(path, i - 1)

Ext(path) == ExtFrom(path, Len(path))

isStringInSlice(haystack, needle) ==
    \E k \in 1..Len(haystack) : haystack[k] = needle

IsRebuildExtension_inverted(extension) ==
    isStringInSlice(NoRebuildExtensions, extension)

IsRebuildExtension_always(extension) == TRUE

IsRebuildExtension(extension) ==
    ~isStringInSlice(NoRebuildExtensions, extension)

IsExtensionToWatch(extension) ==
    isStringInSlice(ExtensionsToWatch, extension)

\* ------------------------------------------------------------------ events
\* fsnotify.Event{Name, Op}; id is the arrival number of the raw event (0 for
\* the zero value and for the synthetic startup event).
OpWrite == "WRITE"
OpChmod == "CHMOD"
OpNone  == "NONE"

ZeroEvent    == [name |-> <<>>, op |-> OpNone, id |-> 0]
StartupEvent == [name |-> StartupName, op |-> OpWrite, id |-> 0]

\* What the environment may deliver: a name and an operation.
RawKinds ==
    { [name |-> GoFile,   op |-> OpWrite],
      [name |-> HtmlFile, op |-> OpWrite],
      [name |-> TxtFile,  op |-> OpWrite],
      [name |-> GoFile,   op |-> OpChmod] }

\* The raw events the debouncer is meant to act on: a write to a .go or a
\* .html file.
QualifyingKinds ==
    { [name |-> GoFile,   op |-> OpWrite],
      [name |-> HtmlFile, op |-> OpWrite] }

\* The two filters of the event case of Watch's goroutine.
IsDropped_chmodOnly(e) ==
    e.op = OpChmod

IsDropped_extensionOnly(e) ==
    ~IsExtensionToWatch(Ext(e.name))

IsDropped(e) ==
    \/ e.op = OpChmod
    \/ ~IsExtensionToWatch(Ext(e.name))

\* ------------------------------------------- directories and configuration
DirDot      == <<".">>
DirGit      == <<".", "g", "i", "t">>
DirGithub   == <<".", "g", "i", "t", "h", "u", "b">>
DirVscode   == <<".", "v", "s", "c", "o", "d", "e">>
DirModules  == <<"n", "o", "d", "e", "_", "m", "o", "d", "u", "l", "e", "s">>
DirObjects  == <<"o", "b", "j", "e", "c", "t", "s">>
DirSource   == <<"s", "o", "m", "e", "_", "s", "o", "u", "r", "c", "e", "_", "d", "i", "r">>
DirSub      == <<"s", "u", "b">>
DirTemp     == <<"t", "e", "m", "p", "o", "r", "a", "r", "y">>
DirTmp      == <<"t", "m", "p">>

\* strings.Split(path, "/"): cur is the element being read, acc the elements
\* read so far.
RECURSIVE SplitFrom(_, _, _, _)
SplitFrom(path, i, cur, acc) ==
    IF i > Len(path) THEN Append(acc, cur)
    ELSE IF path[i] = PathSeparator THEN SplitFrom(path, i + 1, <<>>, Append(acc, cur))
    ELSE SplitFrom(path, i + 1, Append(cur, path[i]), acc)

\* The elements filepath.Clean keeps: no empty element and no "." element
\* (no path of the model has a ".." element).
CleanElems(path) ==
    SelectSeq(SplitFrom(path, 1, <<>>, <<>>), LAMBDA e : e # <<>> /\ e # DirDot)

RECURSIVE JoinElems(_)
JoinElems(elems) ==
    IF elems = <<>> THEN <<>>
    ELSE IF Len(elems) = 1 THEN elems[1]
    ELSE elems[1] \o <<PathSeparator>> \o JoinElems(Tail(elems))

\* filepath.Clean of a relative path: "." when nothing is left.
Clean(path) ==
    IF CleanElems(path) = <<>> THEN DirDot ELSE JoinElems(CleanElems(path))

\* filepath.Join(dir, name)
Join(dir, name) == Clean(dir \o <<PathSeparator>> \o name)

\* os.Getwd(), as path elements.
CwdElems == << <<"w">> >>

\* filepath.Abs: a path that is not absolute is joined to the working
\* directory of the process; the result is cleaned.
Abs(path) ==
    IF path # <<>> /\ path[1] = PathSeparator
    THEN <<PathSeparator>> \o JoinElems(CleanElems(path))
    ELSE <<PathSeparator>> \o JoinElems(CwdElems \o CleanElems(path))

\* filepath.Base
Base(path) ==
    IF CleanElems(path) = <<>> THEN DirDot
    ELSE CleanElems(path)[Len(CleanElems(path))]

\* strings.HasPrefix
HasPrefix(str, prefix) ==
    /\ Len(str) >= Len(prefix)
    /\ SubSeq(str, 1, Len(prefix)) = prefix

\* newDefaultConfig().DirectoriesToIgnore
DefaultDirectoriesToIgnore == <<DirTmp, DirModules, DirGit, DirVscode>>

\* The configurations config.Data() may hold: the built-in defaults; a file
\* that leaves the temp directory out of DirectoriesToIgnore; a file with a
\* working directory other than ".".
Configs ==
    << [ WorkingDir          |-> DirDot,
         TempDir             |-> Join(DirDot, DirTmp),
         DirectoriesToIgnore |-> DefaultDirectoriesToIgnore ],
       [ WorkingDir          |-> DirDot,
         TempDir             |-> Join(DirDot, DirTmp),
         DirectoriesToIgnore |-> <<DirGit>> ],
       [ WorkingDir          |-> DirSource,
         TempDir             |-> Join(DirSource, DirTmp),
         DirectoriesToIgnore |-> DefaultDirectoriesToIgnore ] >>

DefaultConfigId == 1

\* -------------------------------------------------- config.File.validate()
\* Longest list of extensions a parsed config file holds.
MaxList == 2

\* The white space strings.TrimSpace cuts off.
WhiteSpace == {" "}

RECURSIVE TrimLeft(_)
TrimLeft(str) ==
    IF str # <<>> /\ Head(str) \in WhiteSpace THEN TrimLeft(Tail(str)) ELSE str

RECURSIVE TrimRight(_)
TrimRight(str) ==
    IF str # <<>> /\ str[Len(str)] \in WhiteSpace
    THEN TrimRight(SubSeq(str, 1, Len(str) - 1))
    ELSE str

\* strings.TrimSpace
TrimSpace(str) == TrimRight(TrimLeft(str))

\* filepath.FromSlash
FromSlash(path) ==
    [i \in 1..Len(path) |-> IF path[i] = "/" THEN PathSeparator ELSE path[i]]

\* strings.TrimSpace(s) == ""
IsBlank_untrimmed(str) == str = <<>>

IsBlank(str) == TrimSpace(str) = <<>>

ExtCss == <<".", "c", "s", "s">>

DefaultBuildName == <<"f", "r", "e", "s", "h", "e", "r", "-", "b", "u", "i", "l", "d">>

DefaultBuildLogFilename ==
    <<"f", "r", "e", "s", "h", "e", "r", "-", "b", "u", "i", "l", "d", "-", "e", "r", "r", "o", "r", "s", ".", "l", "o", "g">>

\* newDefaultConfig(), the fields validate() works on.
newDefaultConfig ==
    [ WorkingDir             |-> DirDot,
      EntryPoint             |-> DirDot,
      TempDir                |-> Join(DirDot, DirTmp),
      ExtensionsToWatch      |-> ExtensionsToWatch,
      NoRebuildExtensions    |-> NoRebuildExtensions,
      DirectoriesToIgnore    |-> DefaultDirectoriesToIgnore,
      BuildDelayMilliseconds |-> 100,
      BuildName              |-> DefaultBuildName,
      BuildLogFilename       |-> DefaultBuildLogFilename ]

\* The loop over conf.ExtensionsToWatch: each extension trimmed, one that is
\* in the list already left out.
RECURSIVE validExtensionsToWatch(_, _, _)
validExtensionsToWatch(list, k, valid) ==
    IF k > Len(list) THEN valid
    ELSE LET extension == TrimSpace(list[k])
         IN  validExtensionsToWatch(list, k + 1,
                 IF isStringInSlice(valid, extension) THEN valid
                 ELSE Append(valid, extension))

\* A loop over conf.NoRebuildExtensions that leaves conf.ExtensionsToWatch as
\* it is.
RECURSIVE validNoRebuildExtensions_notAdded(_, _, _, _)
validNoRebuildExtensions_notAdded(list, k, valid, watch) ==
    IF k > Len(list) THEN [valid |-> valid, watch |-> watch]
    ELSE LET extension == TrimSpace(list[k])
         IN  validNoRebuildExtensions_notAdded(list, k + 1,
                 IF isStringInSlice(valid, extension) THEN valid
                 ELSE Append(valid, extension), watch)

\* The loop over conf.NoRebuildExtensions: each extension trimmed, one that
\* is in the list already left out, one that conf.ExtensionsToWatch (watch)
\* does not hold appended to it.
RECURSIVE validNoRebuildExtensions(_, _, _, _)
validNoRebuildExtensions(list, k, valid, watch) ==
    IF k > Len(list) THEN [valid |-> valid, watch |-> watch]
    ELSE LET extension == TrimSpace(list[k])
         IN  IF isStringInSlice(valid, extension)
             THEN validNoRebuildExtensions(list, k + 1, valid, watch)
             ELSE validNoRebuildExtensions(list, k + 1,
                      Append(valid, extension),
                      IF isStringInSlice(watch, extension) THEN watch
                      ELSE Append(watch, extension))

\* The loop over conf.DirectoriesToIgnore: each directory trimmed and
\* cleaned, one that is in the list already left out.
RECURSIVE validDirectoriesToIgnore(_, _, _)
validDirectoriesToIgnore(list, k, valid) ==
    IF k > Len(list) THEN valid
    ELSE LET dir == Clean(TrimSpace(list[k]))
         IN  validDirectoriesToIgnore(list, k + 1,
                 IF isStringInSlice(valid, dir) THEN valid
                 ELSE Append(valid, dir))

\* validate(): the File it leaves behind and the error it returns. An error
\* return leaves the fields after the one at fault as they were.
validate(conf) ==
    LET defaults   == newDefaultConfig
        workingDir == FromSlash(TrimSpace(conf.WorkingDir))
        entryPoint == TrimSpace(conf.EntryPoint)
        tempDir    == FromSlash(TrimSpace(conf.TempDir))
        watch      == validExtensionsToWatch(conf.ExtensionsToWatch, 1, <<>>)
        extensions == validNoRebuildExtensions(conf.NoRebuildExtensions, 1,
                          <<>>,
                          IF Len(watch) = 0 THEN defaults.ExtensionsToWatch
                          ELSE watch)
    IN  IF workingDir = <<>>
        THEN [ file |-> [conf EXCEPT !.WorkingDir = workingDir],
               err  |-> "workingDir" ]
        ELSE IF entryPoint = <<>>
        THEN [ file |-> [conf EXCEPT !.WorkingDir = workingDir,
                                     !.EntryPoint = entryPoint],
               err  |-> "entryPoint" ]
        ELSE [ file |->
                 [ WorkingDir  |-> workingDir,
                   EntryPoint  |-> entryPoint,
                   TempDir     |-> IF tempDir = <<>> THEN defaults.TempDir
                                   ELSE tempDir,
                   ExtensionsToWatch   |-> extensions.watch,
                   NoRebuildExtensions |-> extensions.valid,
                   DirectoriesToIgnore |->
                       validDirectoriesToIgnore(conf.DirectoriesToIgnore, 1,
                                                <<>>),
                   BuildDelayMilliseconds |->
                       IF conf.BuildDelayMilliseconds < 0
                       THEN defaults.BuildDelayMilliseconds
                       ELSE conf.BuildDelayMilliseconds,
                   BuildName |->
                       IF IsBlank(conf.BuildName) THEN defaults.BuildName
                       ELSE conf.BuildName,
                   BuildLogFilename |->
                       IF IsBlank(conf.BuildLogFilename)
                       THEN defaults.BuildLogFilename
                       ELSE conf.BuildLogFilename ],
               err |-> "nil" ]

\* What a parsed config file gives as an extension: with its period, with
\* white space before it, without the period.
ParsedExtensions == {ExtGo, <<" ">> \o ExtGo, ExtCss, <<"g", "o">>}

\* Lists of at most n elements of S.
SeqsUpTo(S, n) == UNION { [1..m -> S] : m \in 0..n }

\* The Files yaml.Unmarshal may hand to validate(): fields left out or blank,
\* values with white space around them, extensions given twice or without
\* their period, a no-rebuild extension that is not watched, a negative delay.
ParsedFiles ==
    [ WorkingDir             : {<<>>, <<" ">>, <<".", " ">>},
      EntryPoint             : {<<" ">>, <<".">>},
      TempDir                : {<<" ">>, <<"o", "u", "t", "/">>},
      ExtensionsToWatch      : SeqsUpTo(ParsedExtensions, MaxList),
      NoRebuildExtensions    : SeqsUpTo(ParsedExtensions, MaxList),
      DirectoriesToIgnore    : {<<>>, <<DirTmp, <<" ">> \o DirTmp \o <<"/">> >>},
      BuildDelayMilliseconds : {-1, 0},
      BuildName              : {<<" ">>, <<"b">>},
      BuildLogFilename       : {<<>>, <<"l">>} ]

IsTempDir_base(conf, path) ==
    Base(path) = Base(conf.TempDir)

IsTempDir(conf, path) ==
    Abs(path) = Abs(conf.TempDir)

IsDirectoryToIgnore_exact(conf, path) ==
    isStringInSlice(conf.DirectoriesToIgnore, path)

IsDirectoryToIgnore(conf, path) ==
    \E k \in 1..Len(conf.DirectoriesToIgnore) :
        HasPrefix(path, conf.DirectoriesToIgnore[k])

\* What may exist below the working directory: entry 1 is the working
\* directory itself; the entries are numbered in the order filepath.WalkDir
\* visits them (lexical, a directory before its content).
Tree ==
    << [name |-> <<>>,       dir |-> TRUE,  parent |-> 0],
       [name |-> DirGit,     dir |-> TRUE,  parent |-> 1],
       [name |-> DirObjects, dir |-> TRUE,  parent |-> 2],
       [name |-> DirGithub,  dir |-> TRUE,  parent |-> 1],
       [name |-> GoFile,     dir |-> FALSE, parent |-> 1],
       [name |-> DirSource,  dir |-> TRUE,  parent |-> 1],
       [name |-> DirTmp,     dir |-> TRUE,  parent |-> 6],
       [name |-> DirTemp,    dir |-> TRUE,  parent |-> 1],
       [name |-> DirTmp,     dir |-> TRUE,  parent |-> 1],
       [name |-> DirSub,     dir |-> TRUE,  parent |-> 9] >>

RootEntry == 1

Entries == 1..Len(Tree)

\* The path the WalkDir callback is given for entry n: the root as it was
\* passed to WalkDir, below it filepath.Join(path of the directory, name).
RECURSIVE PathOf(_, _)
PathOf(conf, n) ==
    IF n = RootEntry THEN conf.WorkingDir
    ELSE Join(PathOf(conf, Tree[n].parent), Tree[n].name)

\* os.ReadDir: the entries of directory n that exist, in lexical order.
RECURSIVE ChildrenFrom(_, _, _)
ChildrenFrom(n, present, k) ==
    IF k > Len(Tree) THEN <<>>
    ELSE IF k \in present /\ Tree[k].parent = n
         THEN <<k>> \o ChildrenFrom(n, present, k + 1)
         ELSE ChildrenFrom(n, present, k + 1)

Children(n, present) == ChildrenFrom(n, present, 1)

\* The sets of entries a directory tree can consist of.
TreeShapes ==
    { S \in SUBSET Entries :
        /\ RootEntry \in S
        /\ \A n \in S : n = RootEntry \/ Tree[n].parent \in S }

\* Value of a File variable of Read() once Read() has returned.
NoFile == << >>

VARIABLES
    sys,               \* "running", "exit1" (os.Exit(1)/log.Fatalln), "panic"
    pcMain,            \* main(): "newWatcher" -> "walk" (in Watch()) -> "start"
                       \* (Watch() has returned) -> "inject" -> "block" (in Start())
    cfgId,             \* which of Configs config.Data() holds
    exists,            \* entries of Tree that exist below WorkingDir
    walkTodo,          \* entries filepath.WalkDir has still to visit, in order
    watched,           \* entries whose path was passed to watcher.Add
    watchErr,          \* value Watch() returns: "nil", "newWatcher", "walk", "add"
    nextId,            \* id of the next raw event
    pcDeb,             \* debouncer goroutine: "select","sendEvent","checkKill","sendKill"
    lastEvent,         \* lastEvent of the debouncer goroutine
    timerArmed,        \* the quiet timer is running
    timerC,            \* number of values buffered in timer.C (0 or 1)
    eventsChan,        \* buffered channel, capacity 1
    killBuildingChan,  \* buffered channel, capacity 1
    buildCmdRunning,   \* package-level flag
    flagPrev,          \* the value buildCmdRunning had before its last write
    pcOrch,            \* goroutine of start()
    event,             \* event received by the goroutine of start()
    started,           \* local of start()
    rebuildRequired,   \* local of the loop body of start() (FALSE out of scope)
    buildSuccessful,   \* local of the loop body of start() (FALSE out of scope)
    buildErr,          \* value returned by the last build()
    attempts,          \* build attempts: the one in progress (last) and the
                       \* earlier ones whose kill watcher is still running
    targets,           \* binaries started by run() and not yet killed by
                       \* their stop listener (a binary that ends by itself
                       \* only lowers the number of live instances)
    logFile,           \* build-error log file: "none", "stale" (of an earlier
                       \* attempt or session), "fresh" (of the attempt in progress)
    hDebEmitted,       \* the debouncer has taken an event to send
    hQualSeen,         \* a raw event that is neither chmod-only nor of an
                       \* unwatched extension has arrived
    hFiredFor,         \* id of lastEvent when the quiet timer last expired
    hLastSent,         \* id of the last event the debouncer sent (0: none)
    hBuilds,           \* calls of build(), counted up to CountCap
    hRuns,             \* binaries started by run(), counted up to CountCap
    hLastDir,          \* the last directory the WalkDir callback tested against
                       \* DirectoriesToIgnore, and the answer it got
    hLastQual,         \* id of the last raw event that was neither chmod-only
                       \* nor of an unwatched extension (0: none)
    hDelFailed,        \* os.Remove of the build-error log failed, for another
                       \* reason than a missing file, before the build about
                       \* to start or under way
    pcRead,            \* config.Read(): "parsed" (yaml.Unmarshal has filled
                       \* cfg) -> "validated" -> "saved" or "failed"; "done"
                       \* once Read() has returned
    cfg,               \* local File of Read(), receiver of validate()
    hParsed,           \* cfg as yaml.Unmarshal filled it
    validateErr,       \* what validate() returned: "nil", "workingDir",
                       \* "entryPoint"
    pcStart2,          \* goroutine of runner2's start(): "recv", "received",
                       \* "decide", "build", "run"; "none" in a process that
                       \* runs package runner3
    eventName,         \* eventName of the loop body of runner2's start()
    buildFailed        \* buildFailed of the loop body of runner2's start()

vars == << sys, pcMain, nextId, pcDeb, lastEvent, timerArmed, timerC,
           eventsChan, killBuildingChan, buildCmdRunning, flagPrev, pcOrch,
           event, started, buildErr, attempts, targets, logFile, hDebEmitted,
           hQualSeen, hFiredFor, hLastSent, hBuilds, hRuns, cfgId, exists,
           walkTodo, watched, watchErr, hLastDir, rebuildRequired,
           buildSuccessful, hLastQual, hDelFailed, pcRead, cfg, hParsed,
           validateErr, pcStart2, eventName, buildFailed >>

\* What start() of package runner2 works on besides sys, started, targets,
\* logFile and the counters.
runner2Vars == << pcStart2, eventName, buildFailed >>

\* What config.Read() works on.
confVars == << pcRead, cfg, hParsed, validateErr >>

\* What Watch() works on before the goroutines run.
setupVars == << cfgId, exists, walkTodo, watched, watchErr, hLastDir,
               confVars, runner2Vars >>

debVars  == << pcDeb, lastEvent, timerArmed, timerC, hDebEmitted, hQualSeen,
               hFiredFor, hLastSent, hLastQual >>
orchVars == << pcOrch, event, started, buildErr, hBuilds, hRuns,
               rebuildRequired, buildSuccessful, hDelFailed >>

\* The history counters stop counting here.
CountCap == 2

Bump(n) == IF n < CountCap THEN n + 1 ELSE n

RemoveAt(seq, i) == SubSeq(seq, 1, i - 1) \o SubSeq(seq, i + 1, Len(seq))

Running == sys = "running"

\* build() has been entered and start() has not yet acted on its result.
InBuild == pcOrch \in {"cmdStart", "wait", "result"}

\* Index of the attempt in progress (meaningful while InBuild).
Cur == Len(attempts)

\* The attempt whose build subprocess is running right now, 0 if none.
BuildingNow ==
    IF pcOrch = "wait" /\ attempts[Cur].proc = "running" THEN Cur ELSE 0

\* The process once Watch() has returned without error (a working directory
\* without subdirectories, the built-in configuration) and Start() has called
\* start(): the debouncer goroutine and the goroutine of start() are running.
Init ==
    /\ sys = "running"
    /\ pcMain = "inject"
    /\ nextId = 1
    /\ pcDeb = "select"
    /\ lastEvent = ZeroEvent
    /\ timerArmed = FALSE
    /\ timerC = 0
    /\ eventsChan = <<>>
    /\ killBuildingChan = <<>>
    /\ buildCmdRunning = FALSE
    /\ flagPrev = FALSE
    /\ pcOrch = "recv"
    /\ event = ZeroEvent
    /\ started = FALSE
    /\ buildErr = "nil"
    /\ attempts = <<>>
    /\ targets = <<>>
    /\ logFile = "none"
    /\ hDebEmitted = FALSE
    /\ hQualSeen = FALSE
    /\ hLastQual = 0
    /\ hDelFailed = FALSE
    /\ pcRead = "done"
    /\ cfg = NoFile
    /\ hParsed = NoFile
    /\ validateErr = "nil"
    /\ pcStart2 = "none"
    /\ eventName = <<>>
    /\ buildFailed = FALSE
    /\ hFiredFor = 0
    /\ hLastSent = 0
    /\ hBuilds = 0
    /\ hRuns = 0
    /\ rebuildRequired = FALSE
    /\ buildSuccessful = FALSE
    /\ cfgId = DefaultConfigId
    /\ exists = {RootEntry}
    /\ walkTodo = <<>>
    /\ watched = {RootEntry}
    /\ watchErr = "nil"
    /\ hLastDir = [entry |-> RootEntry, ignored |-> FALSE]

\* --------------------------------------------------- main() and Watch()
\* What the goroutines of the package work on, their positions left out.
loopVars == << sys, nextId, lastEvent, timerArmed, timerC, eventsChan,
               killBuildingChan, buildCmdRunning, flagPrev, event, started,
               buildErr, attempts, targets, logFile, hDebEmitted, hQualSeen,
               hFiredFor, hLastSent, hBuilds, hRuns, rebuildRequired,
               buildSuccessful, hLastQual, hDelFailed >>

\* The process as main() calls runner3.Watch(): no goroutine runs yet.
InitSetup ==
    /\ sys = "running"
    /\ pcMain = "newWatcher"
    /\ nextId = 1
    /\ pcDeb = "none"
    /\ lastEvent = ZeroEvent
    /\ timerArmed = FALSE
    /\ timerC = 0
    /\ eventsChan = <<>>
    /\ killBuildingChan = <<>>
    /\ buildCmdRunning = FALSE
    /\ flagPrev = FALSE
    /\ pcOrch = "none"
    /\ event = ZeroEvent
    /\ started = FALSE
    /\ buildErr = "nil"
    /\ attempts = <<>>
    /\ targets = <<>>
    /\ logFile = "none"
    /\ hDebEmitted = FALSE
    /\ hQualSeen = FALSE
    /\ hLastQual = 0
    /\ hDelFailed = FALSE
    /\ pcRead = "done"
    /\ cfg = NoFile
    /\ hParsed = NoFile
    /\ validateErr = "nil"
    /\ pcStart2 = "none"
    /\ eventName = <<>>
    /\ buildFailed = FALSE
    /\ hFiredFor = 0
    /\ hLastSent = 0
    /\ hBuilds = 0
    /\ hRuns = 0
    /\ rebuildRequired = FALSE
    /\ buildSuccessful = FALSE
    /\ cfgId \in 1..Len(Configs)
    /\ exists \in TreeShapes
    /\ walkTodo = <<>>
    /\ watched = {}
    /\ watchErr = "nil"
    /\ hLastDir = [entry |-> 0, ignored |-> FALSE]

\* watcher, err := fsnotify.NewWatcher(); if err != nil { return err };
\* then filepath.WalkDir starts at config.Data().WorkingDir.
WatchNewWatcher ==
    /\ pcMain = "newWatcher"
    /\ \E ok \in BOOLEAN :
         IF ok
         THEN /\ pcMain' = "walk"
              /\ walkTodo' = <<RootEntry>>
              /\ UNCHANGED watchErr
         ELSE /\ pcMain' = "start"
              /\ watchErr' = "newWatcher"
              /\ UNCHANGED walkTodo
    /\ UNCHANGED << loopVars, pcDeb, pcOrch, cfgId, exists, watched, hLastDir,
                    confVars, runner2Vars >>

\* One entry of the walk: the callback is called for it; a directory the
\* callback registered is then read (on a read error the callback is called
\* again and returns the error), and its entries are visited next.  An error
\* the callback returns ends the walk; fs.SkipDir only leaves the directory
\* unread.
WalkVisit ==
    /\ pcMain = "walk"
    /\ walkTodo # <<>>
    /\ LET n    == Head(walkTodo)
           conf == Configs[cfgId]
           path == PathOf(conf, n)
       IN  IF ~Tree[n].dir
           THEN /\ walkTodo' = Tail(walkTodo)
                /\ UNCHANGED << watched, watchErr, hLastDir >>
           ELSE IF IsTempDir(conf, path)
           THEN /\ walkTodo' = Tail(walkTodo)
                /\ UNCHANGED << watched, watchErr, hLastDir >>
           ELSE /\ hLastDir' = [entry   |-> n,
                                ignored |-> IsDirectoryToIgnore(conf, path)]
                /\ IF IsDirectoryToIgnore(conf, path)
                   THEN /\ walkTodo' = Tail(walkTodo)
                        /\ UNCHANGED << watched, watchErr >>
                   ELSE \E res \in {"nil", "add", "walk"} :
                          /\ watched' = IF res = "add" THEN watched
                                        ELSE watched \cup {n}
                          /\ watchErr' = res
                          /\ walkTodo' = IF res = "nil"
                                         THEN Children(n, exists) \o Tail(walkTodo)
                                         ELSE <<>>
    /\ UNCHANGED << loopVars, pcMain, pcDeb, pcOrch, cfgId, exists, confVars,
                    runner2Vars >>

\* if err != nil && err != fs.SkipDir { return }; otherwise the go statement
\* of the debouncer goroutine (which drains the first expiry of its timer),
\* and Watch returns.
WatchReturn ==
    /\ pcMain = "walk"
    /\ walkTodo = <<>>
    /\ pcDeb' = IF watchErr # "nil" THEN pcDeb ELSE "select"
    /\ pcMain' = "start"
    /\ UNCHANGED << loopVars, pcOrch, setupVars >>

\* main(): the value runner3.Watch() returned is not looked at;
\* runner3.Start() calls start(), which starts the build-and-run goroutine.
MainStart ==
    /\ pcMain = "start"
    /\ pcOrch' = "recv"
    /\ pcMain' = "inject"
    /\ UNCHANGED << loopVars, pcDeb, setupVars >>

\* ------------------------------------------------------------- environment
\* The runtime's timer expires: a value is sent on timer.C without blocking
\* (dropped when the one-slot buffer of timer.C still holds a value).
TimerFire ==
    /\ Running
    /\ timerArmed
    /\ timerArmed' = FALSE
    /\ timerC' = 1
    /\ hFiredFor' = lastEvent.id
    /\ UNCHANGED << setupVars, sys, pcMain, nextId, pcDeb, lastEvent, hDebEmitted,
                    hLastSent, hQualSeen, hLastQual, eventsChan, killBuildingChan, buildCmdRunning,
                    flagPrev, orchVars, attempts, targets, logFile >>

\* --------------------------------------------- debouncer goroutine of Watch
\* timer.Reset(time.Millisecond * 50): re-arms the timer; a value already
\* buffered in timer.C stays there.
TimerReset(c) == c

\* case event := <-watcher.Events, for a raw event the filesystem produces:
\* drop it, or remember it and reset the quiet timer.
DebEvent ==
    /\ Running
    /\ pcDeb = "select"
    /\ nextId <= MaxEvents
    /\ \E k \in RawKinds :
         LET e == [name |-> k.name, op |-> k.op, id |-> nextId] IN
           /\ hQualSeen' = (hQualSeen \/ k \in QualifyingKinds)
           /\ hLastQual' = IF k \in QualifyingKinds THEN nextId ELSE hLastQual
           /\ IF IsDropped(e)
              THEN UNCHANGED << lastEvent, timerArmed, timerC >>
              ELSE /\ lastEvent' = e
                   /\ timerArmed' = TRUE
                   /\ timerC' = TimerReset(timerC)
    /\ nextId' = nextId + 1
    /\ UNCHANGED << setupVars, sys, pcMain, pcDeb, hDebEmitted, hFiredFor, hLastSent,
                    eventsChan, killBuildingChan, buildCmdRunning, flagPrev,
                    orchVars, attempts, targets, logFile >>

\* case <-timer.C: the goroutine goes on to send lastEvent.
DebTimer ==
    /\ Running
    /\ pcDeb = "select"
    /\ timerC = 1
    /\ timerC' = 0
    /\ pcDeb' = "sendEvent"
    /\ hDebEmitted' = TRUE
    /\ UNCHANGED << setupVars, sys, pcMain, nextId, lastEvent, timerArmed, hFiredFor,
                    hLastSent, hQualSeen, hLastQual, eventsChan, killBuildingChan, buildCmdRunning,
                    flagPrev, orchVars, attempts, targets, logFile >>

\* eventsChan <- lastEvent (blocks while the buffer is full).  The attempt
\* whose subprocess is running is noted as superseded when the Trigger is a
\* newer one than the Trigger the attempt was started for.
DebSendEvent ==
    /\ Running
    /\ pcDeb = "sendEvent"
    /\ Len(eventsChan) < EventsChanCap
    /\ eventsChan' = Append(eventsChan, lastEvent)
    /\ hLastSent' = lastEvent.id
    /\ pcDeb' = "checkKill"
    /\ attempts' =
         IF BuildingNow # 0 /\ lastEvent.id > attempts[Cur].trig
         THEN [attempts EXCEPT ![Cur].hSuperseded = TRUE]
         ELSE attempts
    /\ UNCHANGED << setupVars, sys, pcMain, nextId, lastEvent, timerArmed, timerC,
                    hDebEmitted, hQualSeen, hLastQual, hFiredFor, killBuildingChan,
                    buildCmdRunning, flagPrev, orchVars, targets, logFile >>

\* if buildCmdRunning && rebuildRequired
NeedsKill_anyTrigger(flag, name) == flag

NeedsKill(flag, name) ==
    flag /\ IsRebuildExtension(Ext(name))

\* The unsynchronised read of buildCmdRunning: the goroutine sees the current
\* value or the value before the last write of the other goroutine.
DebCheckKill ==
    /\ Running
    /\ pcDeb = "checkKill"
    /\ \E flag \in {buildCmdRunning, flagPrev} :
         pcDeb' = IF NeedsKill(flag, lastEvent.name) THEN "sendKill" ELSE "select"
    /\ UNCHANGED << setupVars, sys, pcMain, nextId, lastEvent, timerArmed, timerC,
                    hDebEmitted, hQualSeen, hLastQual, hFiredFor, hLastSent, eventsChan,
                    killBuildingChan, buildCmdRunning, flagPrev, orchVars,
                    attempts, targets, logFile >>

\* killBuildingChan <- true (blocks while the buffer is full).  The signal
\* carries, as history, the Trigger it was sent for and whether a build
\* subprocess was running when it was sent.
DebSendKill ==
    /\ Running
    /\ pcDeb = "sendKill"
    /\ Len(killBuildingChan) < KillChanCap
    /\ killBuildingChan' = Append(killBuildingChan,
                                  [for |-> lastEvent.id,
                                   building |-> BuildingNow # 0])
    /\ pcDeb' = "select"
    /\ UNCHANGED << setupVars, sys, pcMain, nextId, lastEvent, timerArmed, timerC,
                    hDebEmitted, hQualSeen, hLastQual, hFiredFor, hLastSent, eventsChan,
                    buildCmdRunning, flagPrev, orchVars, attempts, targets,
                    logFile >>

\* ------------------------------------------------------------------ Start()
\* eventsChan <- fsnotify.Event{Name: "/", Op: fsnotify.Write}
MainInject ==
    /\ Running
    /\ pcMain = "inject"
    /\ Len(eventsChan) < EventsChanCap
    /\ eventsChan' = Append(eventsChan, StartupEvent)
    /\ pcMain' = "block"
    /\ UNCHANGED << setupVars, sys, nextId, debVars, killBuildingChan, buildCmdRunning,
                    flagPrev, orchVars, attempts, targets, logFile >>

\* ------------------------------------------------- goroutine of start()
\* if !started { os.Exit(1) } after a build error that is not errBuildKilled
FatalOnFailure_never(isStarted) == FALSE

FatalOnFailure(isStarted) == ~isStarted

\* if rebuildRequired && !buildSuccessful { continue }
SkipRun_never(required, successful) == FALSE

SkipRun(required, successful) ==
    required /\ ~successful

\* if rebuildRequired { time.Sleep(delay); ... build(event) ... }: where the
\* loop body goes once rebuildRequired is known.
AfterRecv_alwaysDelay(required) == "delay"

AfterRecv(required) == IF required THEN "delay" ELSE "stop"

\* event := <-eventsChan; rebuildRequired := IsRebuildExtension(Ext(event.Name))
OrchRecv ==
    /\ Running
    /\ pcOrch = "recv"
    /\ eventsChan # <<>>
    /\ event' = Head(eventsChan)
    /\ eventsChan' = Tail(eventsChan)
    /\ rebuildRequired' = IsRebuildExtension(Ext(Head(eventsChan).name))
    /\ buildSuccessful' = FALSE
    /\ pcOrch' = AfterRecv(rebuildRequired')
    /\ UNCHANGED << setupVars, hDelFailed, sys, pcMain, nextId, debVars,
                    killBuildingChan, buildCmdRunning, flagPrev, started, buildErr, hBuilds,
                    hRuns, attempts, targets, logFile >>

\* A delay that a pending Trigger cuts short: the loop takes the pending
\* Trigger in place of the one it was delaying for and delays again.
OrchDelay_interrupted ==
    /\ Running
    /\ pcOrch = "delay"
    /\ IF eventsChan # <<>>
       THEN /\ event' = Head(eventsChan)
            /\ eventsChan' = Tail(eventsChan)
            /\ UNCHANGED << pcOrch, logFile >>
       ELSE /\ pcOrch' = "buildInit"
            /\ logFile' = "none"
            /\ UNCHANGED << event, eventsChan >>
    /\ UNCHANGED << setupVars, hDelFailed, rebuildRequired, buildSuccessful,
                    sys, pcMain, nextId, debVars, killBuildingChan,
                    buildCmdRunning, flagPrev, started, buildErr, hBuilds,
                    hRuns, attempts, targets >>

\* A loop body that goes from the delay to build() and leaves the log alone.
OrchDelay_noDelete ==
    /\ Running
    /\ pcOrch = "delay"
    /\ pcOrch' = "buildInit"
    /\ UNCHANGED << setupVars, hDelFailed, logFile, rebuildRequired,
                    buildSuccessful, sys, pcMain, nextId, debVars, eventsChan,
                    killBuildingChan, buildCmdRunning, flagPrev, event,
                    started, buildErr, hBuilds, hRuns, attempts, targets >>

\* time.Sleep(delay) returns; deleteBuildErrorsLog(): os.Remove succeeds, or
\* fails and the failure is only logged (a file that does not exist is not a
\* failure).
OrchDelay ==
    /\ Running
    /\ pcOrch = "delay"
    /\ \E removed \in BOOLEAN :
         /\ logFile' = IF removed THEN "none" ELSE logFile
         /\ hDelFailed' = (logFile # "none" /\ ~removed)
    /\ pcOrch' = "buildInit"
    /\ UNCHANGED << setupVars, rebuildRequired, buildSuccessful, sys, pcMain,
                    nextId, debVars, eventsChan,
                    killBuildingChan, buildCmdRunning, flagPrev, event,
                    started, buildErr, hBuilds, hRuns, attempts, targets >>

\* ----------------------------------------------------------------- build()
NewAttempt(e) ==
    [ trig         |-> e.id,
      proc         |-> "notStarted",
      errOut       |-> FALSE,
      buildKilled  |-> FALSE,
      watcher      |-> "select",
      cancelKiller |-> 0,
      result       |-> "none",
      hGotSig      |-> FALSE,
      hSigFor      |-> 0,
      hSigBuilding |-> FALSE,
      hSigRunning  |-> FALSE,
      hSuperseded  |-> FALSE,
      hSaveFailed  |-> FALSE ]

\* What is left of an attempt once start() has acted on its result: the kill
\* watcher goroutine, the ended subprocess (or the nil cmd.Process) it may
\* still act on, and cancelKiller.
Leftover(a) ==
    [ NewAttempt(ZeroEvent) EXCEPT
        !.watcher      = a.watcher,
        !.cancelKiller = a.cancelKiller,
        !.proc         = IF a.proc \in {"spawnFailed", "running"} THEN a.proc
                         ELSE "ended" ]

Retire(as) ==
    IF as[Len(as)].watcher = "done"
    THEN SubSeq(as, 1, Len(as) - 1)
    ELSE [as EXCEPT ![Len(as)] = Leftover(as[Len(as)])]

\* exec.Command, the pipes, cancelKiller := make(chan bool, 1),
\* buildKilled := false, and the go statement of the kill watcher.
BuildInit ==
    /\ Running
    /\ pcOrch = "buildInit"
    /\ attempts' = Append(attempts, NewAttempt(event))
    /\ logFile' = IF logFile = "fresh" THEN "stale" ELSE logFile
    /\ hBuilds' = Bump(hBuilds)
    /\ pcOrch' = "cmdStart"
    /\ UNCHANGED << setupVars, hDelFailed, rebuildRequired, buildSuccessful, sys, pcMain,
                    nextId, debVars, eventsChan,
                    killBuildingChan, buildCmdRunning, flagPrev, event,
                    started, buildErr, hRuns, targets >>

\* buildCmdRunning = true; err = cmd.Start(); if err != nil { return }
BuildCmdStart ==
    /\ Running
    /\ pcOrch = "cmdStart"
    /\ flagPrev' = buildCmdRunning
    /\ buildCmdRunning' = TRUE
    /\ \E ok \in BOOLEAN :
         IF ok
         THEN /\ attempts' = [attempts EXCEPT ![Cur].proc = "running"]
              /\ pcOrch' = "wait"
              /\ UNCHANGED << buildErr, hDelFailed >>
         ELSE /\ attempts' = [attempts EXCEPT ![Cur].proc = "spawnFailed",
                                              ![Cur].result = "spawn"]
              /\ pcOrch' = "result"
              /\ buildErr' = "spawn"
              /\ hDelFailed' = FALSE
    /\ UNCHANGED << setupVars, rebuildRequired, buildSuccessful, sys, pcMain,
                    nextId, debVars, eventsChan,
                    killBuildingChan, event, started, hBuilds, hRuns,
                    targets, logFile >>

\* The build tool ends by itself: exit status zero or not, with or without
\* output on stderr.
BuildProcExit ==
    /\ Running
    /\ BuildingNow # 0
    /\ \E st \in {"exit0", "exitErr"}, out \in BOOLEAN :
         attempts' = [attempts EXCEPT ![Cur].proc = st, ![Cur].errOut = out]
    /\ UNCHANGED << setupVars, sys, pcMain, nextId, debVars, eventsChan,
                    killBuildingChan, buildCmdRunning, flagPrev, orchVars,
                    targets, logFile >>

\* The value build() returns once cmd.Wait() has returned:
\*   if err != nil && buildKilled { return errBuildKilled }
\*   else if err != nil { return }
\*   ... if len(errBuf) > 0 { return errBuildFailed } ... return nil
BuildOutcome_ignoresOutput(waitErr, killed, errOut) ==
    IF waitErr /\ killed THEN "killed"
    ELSE IF waitErr THEN "exit"
    ELSE "nil"

BuildOutcome(waitErr, killed, errOut) ==
    IF waitErr /\ killed THEN "killed"
    ELSE IF waitErr THEN "exit"
    ELSE IF errOut THEN "output"
    ELSE "nil"

\* saveBuildErrorsLog is reached on this outcome.
SavesLog(outcome) == outcome = "output"

\* cmd.Wait() returns for a subprocess in this state: one that has exited or
\* was killed.
ProcEnded_always(proc) == TRUE

ProcEnded(proc) == proc \in {"exit0", "exitErr", "killed"}

\* io.Copy and io.ReadAll return when the subprocess has closed its pipes;
\* cmd.Wait() returns; the rest of build() up to its return.
BuildWait ==
    /\ Running
    /\ pcOrch = "wait"
    /\ ProcEnded(attempts[Cur].proc)
    /\ LET a       == attempts[Cur]
           waitErr == a.proc # "exit0"
           out     == BuildOutcome(waitErr, a.buildKilled, a.errOut)
       IN  /\ buildErr' = out
           /\ IF waitErr
              THEN UNCHANGED << buildCmdRunning, flagPrev >>
              ELSE /\ flagPrev' = buildCmdRunning
                   /\ buildCmdRunning' = FALSE
           /\ \E written \in IF SavesLog(out) THEN BOOLEAN ELSE {FALSE} :
                /\ logFile' = IF written THEN "fresh" ELSE logFile
                /\ attempts' = [attempts EXCEPT
                      ![Cur].result       = out,
                      ![Cur].cancelKiller = IF waitErr THEN 0 ELSE 1,
                      ![Cur].hSaveFailed  = SavesLog(out) /\ ~written]
    /\ pcOrch' = "result"
    /\ hDelFailed' = FALSE
    /\ UNCHANGED << setupVars, rebuildRequired, buildSuccessful, sys, pcMain,
                    nextId, debVars, eventsChan,
                    killBuildingChan, event, started, hBuilds, hRuns,
                    targets >>

\* start() acts on the value build() returned.
OrchResult ==
    /\ Running
    /\ pcOrch = "result"
    /\ IF buildErr \notin {"nil", "killed"} /\ FatalOnFailure(started)
       THEN /\ sys' = "exit1"
            /\ UNCHANGED << pcOrch, attempts, rebuildRequired,
                            buildSuccessful >>
       ELSE /\ IF SkipRun(rebuildRequired, buildErr = "nil")
               THEN /\ pcOrch' = "recv"
                    /\ rebuildRequired' = FALSE
                    /\ buildSuccessful' = FALSE
               ELSE /\ pcOrch' = "stop"
                    /\ buildSuccessful' = (buildErr = "nil")
                    /\ UNCHANGED rebuildRequired
            /\ attempts' = Retire(attempts)
            /\ UNCHANGED sys
    /\ UNCHANGED << setupVars, hDelFailed, pcMain, nextId, debVars, eventsChan, killBuildingChan,
                    buildCmdRunning, flagPrev, event, started, buildErr,
                    hBuilds, hRuns, targets, logFile >>

\* ------------------------------------------- kill watcher goroutine of build
\* A watcher that has returned is dropped unless its attempt is in progress.
Settle(as, i) ==
    IF as[i].watcher = "done" /\ ~(InBuild /\ i = Len(as))
    THEN RemoveAt(as, i)
    ELSE as

\* case x := <-killBuildingChan
WatcherRecvKill(i) ==
    /\ Running
    /\ attempts[i].watcher = "select"
    /\ killBuildingChan # <<>>
    /\ LET sig == Head(killBuildingChan) IN
         attempts' = [attempts EXCEPT
                        ![i].watcher      = "kill",
                        ![i].hGotSig      = InBuild /\ i = Cur,
                        ![i].hSigFor      = IF InBuild /\ i = Cur
                                            THEN sig.for ELSE 0,
                        ![i].hSigBuilding = InBuild /\ i = Cur /\ sig.building,
                        ![i].hSigRunning  = (BuildingNow = i)]
    /\ killBuildingChan' = Tail(killBuildingChan)
    /\ UNCHANGED << setupVars, sys, pcMain, nextId, debVars, eventsChan,
                    buildCmdRunning, flagPrev, orchVars, targets, logFile >>

\* case <-cancelKiller
WatcherRecvCancel(i) ==
    /\ Running
    /\ attempts[i].watcher = "select"
    /\ attempts[i].cancelKiller > 0
    /\ attempts' = Settle([attempts EXCEPT ![i].watcher = "done",
                                           ![i].cancelKiller = 0], i)
    /\ UNCHANGED << setupVars, sys, pcMain, nextId, debVars, eventsChan,
                    killBuildingChan, buildCmdRunning, flagPrev, orchVars,
                    targets, logFile >>

\* cmd.Process.Kill(): cmd.Process is nil until cmd.Start() has succeeded
\* (nil dereference); a subprocess that has ended is left as it is.
WatcherKill(i) ==
    /\ Running
    /\ attempts[i].watcher = "kill"
    /\ IF attempts[i].proc \in {"notStarted", "spawnFailed"}
       THEN /\ sys' = "panic"
            /\ UNCHANGED attempts
       ELSE /\ attempts' = [attempts EXCEPT
                              ![i].watcher = "setKilled",
                              ![i].proc = IF @ = "running" THEN "killed" ELSE @]
            /\ UNCHANGED sys
    /\ UNCHANGED << setupVars, pcMain, nextId, debVars, eventsChan, killBuildingChan,
                    buildCmdRunning, flagPrev, orchVars, targets, logFile >>

\* buildKilled = true
WatcherSetKilled(i) ==
    /\ Running
    /\ attempts[i].watcher = "setKilled"
    /\ attempts' = Settle([attempts EXCEPT ![i].watcher = "done",
                                           ![i].buildKilled = TRUE], i)
    /\ UNCHANGED << setupVars, sys, pcMain, nextId, debVars, eventsChan,
                    killBuildingChan, buildCmdRunning, flagPrev, orchVars,
                    targets, logFile >>

\* -------------------------------------------------------- stop and run()
\* if started { stopChan <- true }: the unbuffered send completes when a
\* stop listener receives; that listener goes on to cmd.Process.Kill().
OrchStop ==
    /\ Running
    /\ pcOrch = "stop"
    /\ IF started
       THEN \E i \in 1..Len(targets) :
              /\ targets[i].listener = "waiting"
              /\ targets' = [targets EXCEPT ![i].listener = "kill"]
       ELSE UNCHANGED targets
    /\ pcOrch' = "run"
    /\ UNCHANGED << setupVars, hDelFailed, rebuildRequired, buildSuccessful, sys, pcMain,
                    nextId, debVars, eventsChan,
                    killBuildingChan, buildCmdRunning, flagPrev, event,
                    started, buildErr, hBuilds, hRuns, attempts, logFile >>

\* The binary run() has started and the goroutine of its go func() that
\* waits at <-stopChan.
NewTarget_noListener == [alive |-> TRUE, listener |-> "none"]

NewTarget == [alive |-> TRUE, listener |-> "waiting"]

\* run(): cmd.Start() of the built binary (log.Fatalln on error), the go
\* statement of the stop listener; then started = true in start().
OrchRun ==
    /\ Running
    /\ pcOrch = "run"
    /\ \E ok \in BOOLEAN :
         IF ok
         THEN /\ targets' = Append(targets, NewTarget)
              /\ started' = TRUE
              /\ hRuns' = Bump(hRuns)
              /\ pcOrch' = "recv"
              /\ rebuildRequired' = FALSE
              /\ buildSuccessful' = FALSE
              /\ UNCHANGED sys
         ELSE /\ sys' = "exit1"
              /\ UNCHANGED << targets, started, hRuns, pcOrch,
                              rebuildRequired, buildSuccessful >>
    /\ UNCHANGED << setupVars, hDelFailed, pcMain, nextId, debVars, eventsChan, killBuildingChan,
                    buildCmdRunning, flagPrev, event, buildErr, hBuilds,
                    attempts, logFile >>

\* The stop listener of run(): cmd.Process.Kill() after <-stopChan; the
\* goroutine returns.
ListenerKill(i) ==
    /\ Running
    /\ targets[i].listener = "kill"
    /\ targets' = RemoveAt(targets, i)
    /\ UNCHANGED << setupVars, sys, pcMain, nextId, debVars, eventsChan,
                    killBuildingChan, buildCmdRunning, flagPrev, orchVars,
                    attempts, logFile >>

\* ------------------------------------------------------------ specification
Next ==
    \/ TimerFire
    \/ DebEvent
    \/ DebTimer
    \/ DebSendEvent
    \/ DebCheckKill
    \/ DebSendKill
    \/ MainInject
    \/ OrchRecv
    \/ OrchDelay
    \/ BuildInit
    \/ BuildCmdStart
    \/ BuildProcExit
    \/ BuildWait
    \/ OrchResult
    \/ OrchStop
    \/ OrchRun
    \/ \E i \in 1..Len(attempts) : WatcherRecvKill(i)
    \/ \E i \in 1..Len(attempts) : WatcherRecvCancel(i)
    \/ \E i \in 1..Len(attempts) : WatcherKill(i)
    \/ \E i \in 1..Len(attempts) : WatcherSetKilled(i)
    \/ \E i \in 1..Len(targets) : ListenerKill(i)

Spec == Init /\ [][Next]_vars

\* main() from its call of runner3.Watch() to the first Trigger start()
\* receives.
NextSetup ==
    \/ WatchNewWatcher
    \/ WalkVisit
    \/ WatchReturn
    \/ MainStart
    \/ MainInject
    \/ OrchRecv

SpecSetup == InitSetup /\ [][NextSetup]_vars

\* ------------------------------------------------------------ config.Read()
\* main() is in config.Read(path, print), a file exists at path and
\* yaml.Unmarshal has filled cfg from it.
InitConfig ==
    /\ sys = "running"
    /\ pcMain = "read"
    /\ nextId = 1
    /\ pcDeb = "none"
    /\ lastEvent = ZeroEvent
    /\ timerArmed = FALSE
    /\ timerC = 0
    /\ eventsChan = <<>>
    /\ killBuildingChan = <<>>
    /\ buildCmdRunning = FALSE
    /\ flagPrev = FALSE
    /\ pcOrch = "none"
    /\ event = ZeroEvent
    /\ started = FALSE
    /\ buildErr = "nil"
    /\ attempts = <<>>
    /\ targets = <<>>
    /\ logFile = "none"
    /\ hDebEmitted = FALSE
    /\ hQualSeen = FALSE
    /\ hLastQual = 0
    /\ hDelFailed = FALSE
    /\ hFiredFor = 0
    /\ hLastSent = 0
    /\ hBuilds = 0
    /\ hRuns = 0
    /\ rebuildRequired = FALSE
    /\ buildSuccessful = FALSE
    /\ cfgId = DefaultConfigId
    /\ exists = {RootEntry}
    /\ walkTodo = <<>>
    /\ watched = {}
    /\ watchErr = "nil"
    /\ hLastDir = [entry |-> 0, ignored |-> FALSE]
    /\ pcRead = "parsed"
    /\ cfg \in ParsedFiles
    /\ hParsed = cfg
    /\ validateErr = "nil"
    /\ pcStart2 = "none"
    /\ eventName = <<>>
    /\ buildFailed = FALSE

\* innerErr = cfg.validate()
ReadValidate ==
    /\ pcRead = "parsed"
    /\ cfg' = validate(cfg).file
    /\ validateErr' = validate(cfg).err
    /\ pcRead' = "validated"
    /\ UNCHANGED << loopVars, pcMain, pcDeb, pcOrch, cfgId, exists, walkTodo,
                    watched, watchErr, hLastDir, hParsed, runner2Vars >>

\* if innerErr != nil { return innerErr }: main() ends with log.Fatalln;
\* otherwise parsedConfig = cfg and main() goes on to runner3.Configure().
ReadReturn ==
    /\ pcRead = "validated"
    /\ IF validateErr # "nil"
       THEN /\ pcRead' = "failed"
            /\ sys' = "exit1"
            /\ UNCHANGED pcMain
       ELSE /\ pcRead' = "saved"
            /\ pcMain' = "configure"
            /\ UNCHANGED sys
    /\ UNCHANGED << nextId, lastEvent, timerArmed, timerC, eventsChan,
                    killBuildingChan, buildCmdRunning, flagPrev, event,
                    started, buildErr, attempts, targets, logFile,
                    hDebEmitted, hQualSeen, hFiredFor, hLastSent, hBuilds,
                    hRuns, rebuildRequired, buildSuccessful, hLastQual,
                    hDelFailed, pcDeb, pcOrch, cfgId, exists, walkTodo,
                    watched, watchErr, hLastDir, cfg, hParsed, validateErr,
                    runner2Vars >>

NextConfig == ReadValidate \/ ReadReturn

SpecConfig == InitConfig /\ [][NextConfig]_vars

\* ------------------------------------------------- package runner2 (legacy)
\* The strings that travel on startChan: ev.String() of howeyc/fsnotify for a
\* watched file, which is the quoted name, a colon, a space and the
\* operations; the "/" that Start() sends; and a bare path.
Quote == "\""

OpModify == <<"M", "O", "D", "I", "F", "Y">>
OpCreate == <<"C", "R", "E", "A", "T", "E">>

EventString(name, ops) == <<Quote>> \o name \o <<Quote, ":", " ">> \o ops

SubDirGoFile == <<"s", "/">> \o GoFile

R2EventNames ==
    { StartupName, GoFile, HtmlFile, SubDirGoFile }
        \cup { EventString(n, o) : n \in {GoFile, HtmlFile, SubDirGoFile},
                                   o \in {OpModify, OpCreate} }

\* strings.Split(s, sep)[0]: s up to its first sep, all of s without one.
SplitFirst(s, sep) ==
    LET at == { i \in 1..Len(s) : s[i] = sep }
    IN  IF at = {} THEN s
        ELSE SubSeq(s, 1, (CHOOSE i \in at : \A j \in at : i <= j) - 1)

\* strings.Replace(s, old, "", -1) for a one-character old.
RemoveAll(s, old) == SelectSeq(s, LAMBDA c : c # old)

\* shouldRebuild of runner2.go.
shouldRebuild(name) ==
    LET fileName  == RemoveAll(SplitFirst(name, ":"), Quote)
        extension == Ext(fileName)
    IN  isStringInSlice(NoRebuildExtensions, extension)

\* Everything the goroutine of runner2's start() leaves alone.
runner2Frame == << pcMain, pcDeb, pcOrch, lastEvent, timerArmed, timerC,
                   eventsChan, killBuildingChan, buildCmdRunning, flagPrev,
                   event, buildErr, attempts, hDebEmitted, hQualSeen,
                   hFiredFor, hLastSent, rebuildRequired, buildSuccessful,
                   hLastQual, hDelFailed, cfgId, exists, walkTodo, watched,
                   watchErr, hLastDir, confVars >>

\* Configure(), Watch() and Start() of runner2 have run: main is blocked at
\* the end of Start() and the goroutine of start() waits at <-startChan.
\* startChan and stopChan are taken as made; runner2.go declares them and
\* holds no make() for them.
InitRunner2 ==
    /\ sys = "running"
    /\ pcMain = "block"
    /\ nextId = 1
    /\ pcDeb = "none"
    /\ lastEvent = ZeroEvent
    /\ timerArmed = FALSE
    /\ timerC = 0
    /\ eventsChan = <<>>
    /\ killBuildingChan = <<>>
    /\ buildCmdRunning = FALSE
    /\ flagPrev = FALSE
    /\ pcOrch = "none"
    /\ event = ZeroEvent
    /\ started = FALSE
    /\ buildErr = "nil"
    /\ attempts = <<>>
    /\ targets = <<>>
    /\ logFile = "none"
    /\ hDebEmitted = FALSE
    /\ hQualSeen = FALSE
    /\ hLastQual = 0
    /\ hDelFailed = FALSE
    /\ pcRead = "done"
    /\ cfg = NoFile
    /\ hParsed = NoFile
    /\ validateErr = "nil"
    /\ pcStart2 = "recv"
    /\ eventName = <<>>
    /\ buildFailed = FALSE
    /\ hFiredFor = 0
    /\ hLastSent = 0
    /\ hBuilds = 0
    /\ hRuns = 0
    /\ rebuildRequired = FALSE
    /\ buildSuccessful = FALSE
    /\ cfgId = DefaultConfigId
    /\ exists = {RootEntry}
    /\ walkTodo = <<>>
    /\ watched = {RootEntry}
    /\ watchErr = "nil"
    /\ hLastDir = [entry |-> RootEntry, ignored |-> FALSE]

\* start(): eventName := <-startChan, the sleep, flushStartChan(),
\* deleteBuildErrorsLog() (its error is only logged), buildFailed := false.
R2Recv ==
    /\ Running
    /\ pcStart2 = "recv"
    /\ nextId <= MaxEvents
    /\ \E e \in R2EventNames : eventName' = e
    /\ nextId' = nextId + 1
    /\ logFile' = "none"
    /\ buildFailed' = FALSE
    /\ pcStart2' = "decide"
    /\ UNCHANGED << runner2Frame, sys, started, targets, hBuilds, hRuns >>

\* Where start() goes once no build is left to do: stopChan <- true if the
\* binary is running, run() otherwise.
AfterBuild2 == IF started THEN "stop" ELSE "run"

\* start(): if shouldRebuild(eventName) { build() ... }.
R2Decide ==
    /\ Running
    /\ pcStart2 = "decide"
    /\ pcStart2' = IF shouldRebuild(eventName) THEN "build" ELSE AfterBuild2
    /\ UNCHANGED << runner2Frame, sys, nextId, started, targets, logFile,
                    hBuilds, hRuns, eventName, buildFailed >>

\* build() and what start() does with its result: log.Fatal on a pipe, start
\* or read error; a failed build ends the process if nothing runs yet, else
\* saveBuildErrorsLog() and started = true at the end of the loop body.
R2Build ==
    /\ Running
    /\ pcStart2 = "build"
    /\ hBuilds' = Bump(hBuilds)
    /\ \E outcome \in {"ok", "failed", "fatal"} :
         CASE outcome = "ok" ->
                /\ pcStart2' = AfterBuild2
                /\ UNCHANGED << sys, buildFailed, logFile >>
           [] outcome = "failed" /\ started ->
                /\ buildFailed' = TRUE
                /\ \E written \in BOOLEAN :
                     logFile' = IF written THEN "fresh" ELSE logFile
                /\ pcStart2' = "recv"
                /\ UNCHANGED sys
           [] OTHER ->
                /\ sys' = "exit1"
                /\ buildFailed' = (outcome = "failed")
                /\ UNCHANGED << pcStart2, logFile >>
    /\ UNCHANGED << runner2Frame, nextId, started, targets, hRuns,
                    eventName >>

\* start(): stopChan <- true, taken by a goroutine waiting at <-stopChan.
R2Stop ==
    /\ Running
    /\ pcStart2 = "stop"
    /\ \E i \in 1..Len(targets) :
         /\ targets[i].listener = "waiting"
         /\ targets' = [targets EXCEPT ![i].listener = "kill"]
    /\ pcStart2' = "run"
    /\ UNCHANGED << runner2Frame, sys, nextId, started, logFile, hBuilds,
                    hRuns, eventName, buildFailed >>

\* run() of runner2 (log.Fatalln on a pipe or start error, else the go
\* statement of the stop listener), then started = true.
R2Run ==
    /\ Running
    /\ pcStart2 = "run"
    /\ \E ok \in BOOLEAN :
         IF ok
         THEN /\ targets' = Append(targets, NewTarget)
              /\ started' = TRUE
              /\ hRuns' = Bump(hRuns)
              /\ pcStart2' = "recv"
              /\ UNCHANGED sys
         ELSE /\ sys' = "exit1"
              /\ UNCHANGED << targets, started, hRuns, pcStart2 >>
    /\ UNCHANGED << runner2Frame, nextId, logFile, hBuilds, eventName,
                    buildFailed >>

NextRunner2 ==
    \/ R2Recv
    \/ R2Decide
    \/ R2Build
    \/ R2Stop
    \/ R2Run
    \/ \E i \in 1..Len(targets) : ListenerKill(i)

SpecRunner2 == InitRunner2 /\ [][NextRunner2]_vars

\* =================================================================== claims
Alive == { i \in 1..Len(targets) : targets[i].alive }

FailedOutcomes == {"exit", "output"}

\* C1: at most one started binary is alive at any instant (a new instance is
\* started only after the previous one was stopped and seen to exit).
C1_AtMostOneRunningProcess ==
    Cardinality(Alive) <= 1

\* C2: the event the debouncer sends as a Trigger is the last qualifying event
\* of the window that the expiry of the quiet timer closed, and it is not the
\* event it sent as the previous Trigger (one Trigger per window).
C2_OneTriggerPerWindow ==
    pcDeb = "sendEvent" =>
        /\ lastEvent.id = hFiredFor
        /\ lastEvent.id # hLastSent

\* C3: as long as only chmod-only events and events of unwatched extensions
\* have arrived, the debouncer has sent nothing and its timer was never set.
C3_DroppedEventsNeverTrigger ==
    ~hQualSeen =>
        /\ ~hDebEmitted
        /\ pcDeb = "select"
        /\ ~timerArmed /\ timerC = 0
        /\ \A k \in 1..Len(eventsChan) : eventsChan[k] = StartupEvent

C3_Witness ==
    /\ ~hQualSeen
    /\ nextId > MaxEvents
    /\ pcMain = "block"
    /\ ~hDebEmitted

\* C4: an attempt whose kill watcher received the kill signal while the build
\* subprocess was running ends Killed (build returns errBuildKilled).
C4_KillSignalEndsKilled ==
    (pcOrch = "result" /\ attempts[Cur].hSigRunning) => buildErr = "killed"

\* C5: an attempt that ends Killed was superseded: a Trigger newer than its own
\* was emitted while its subprocess was running, and the signal that killed it
\* was not sent for its own Trigger.
C5_KilledOnlyWhenSuperseded ==
    (pcOrch = "result" /\ buildErr = "killed") =>
        /\ attempts[Cur].hSuperseded
        /\ attempts[Cur].hSigFor # attempts[Cur].trig

\* C6: a kill signal sent while no build subprocess was running never
\* terminates the subprocess of an attempt.
C6_StaleSignalHarmless ==
    \A i \in 1..Len(attempts) :
        (attempts[i].hGotSig /\ ~attempts[i].hSigBuilding) =>
            attempts[i].proc # "killed"

\* C7: while no raw file event has arrived, the only Trigger is the startup
\* event "/", it requires a rebuild, the debouncer sends nothing, build() and
\* run() are called at most once, and when the loop is back at its receive the
\* cycle has built once and run once.
C7_StartupCycleOnly ==
    nextId = 1 =>
        /\ ~hDebEmitted /\ ~timerArmed /\ timerC = 0 /\ pcDeb = "select"
        /\ hBuilds <= 1 /\ hRuns <= 1 /\ hRuns <= hBuilds
        /\ \A k \in 1..Len(eventsChan) : eventsChan[k] = StartupEvent
        /\ pcOrch # "recv" =>
             /\ event = StartupEvent
             /\ IsRebuildExtension(Ext(event.name))
             /\ hBuilds = IF pcOrch = "delay" \/ pcOrch = "buildInit"
                          THEN 0 ELSE 1
        /\ (pcOrch = "recv" /\ pcMain = "block" /\ eventsChan = <<>>) =>
             (hBuilds = 1 /\ hRuns = 1 /\ started /\ Cardinality(Alive) = 1)

C7_Witness ==
    /\ nextId = 1
    /\ pcOrch = "recv" /\ pcMain = "block" /\ eventsChan = <<>>
    /\ hBuilds = 1 /\ hRuns = 1 /\ started

\* C8: when start() acts on a Failed build (non-zero exit or error output)
\* and the binary was never started, the system exits with status 1 and no
\* binary has been started.
C8_FailedBeforeFirstRunExits ==
    [][ (OrchResult /\ buildErr \in FailedOutcomes /\ ~started) =>
          (sys' = "exit1" /\ hRuns' = 0 /\ targets' = <<>>) ]_vars

C8_Witness ==
    /\ sys = "exit1"
    /\ pcOrch = "result"
    /\ buildErr \in FailedOutcomes
    /\ ~started /\ hRuns = 0

\* C9: when start() acts on a Failed or Killed build and the binary has been
\* started, the running binary and its stop listener are left as they are,
\* started stays true, nothing is built or run again, and the loop goes back
\* to its receive.
C9_FailureLeavesBinaryRunning ==
    [][ (OrchResult /\ buildErr \in FailedOutcomes \cup {"killed"} /\ started) =>
          /\ targets' = targets
          /\ started'
          /\ sys' = sys
          /\ pcOrch' = "recv"
          /\ hBuilds' = hBuilds /\ hRuns' = hRuns
          /\ eventsChan' = eventsChan ]_vars

C9_Witness ==
    /\ pcOrch = "recv"
    /\ started
    /\ buildErr \in FailedOutcomes
    /\ Cardinality(Alive) >= 1
    /\ Running

\* C10: when build() returns Failed and writing the file did not fail, the
\* build-error log of this attempt exists.
C10_FailedAttemptWritesLog ==
    (pcOrch = "result" /\ buildErr \in FailedOutcomes
       /\ ~attempts[Cur].hSaveFailed) => logFile = "fresh"

\* The extension of the Trigger's path is one of NoRebuildExtensions.
NoRebuildTrigger(e) ==
    \E k \in 1..Len(NoRebuildExtensions) : NoRebuildExtensions[k] = Ext(e.name)

\* start() is handling a Trigger that needs no rebuild, with the binary
\* started before.
RerunOnly ==
    /\ pcOrch \in {"stop", "run"}
    /\ started
    /\ NoRebuildTrigger(event)

\* Build subprocesses that have been started and have not ended.
BuildProcs == { i \in 1..Len(attempts) : attempts[i].proc = "running" }

\* C11: a Trigger of a no-rebuild extension received once the binary has been
\* started leads to a rerun only: the loop goes from its receive to the stop,
\* to run() and back; build() is not called and no build subprocess runs, the
\* build-error log is left as it is, one waiting stop listener is told to kill
\* its instance, and run() starts the binary again.
C11_NoRebuildTriggerRerunsOnly ==
    [][ /\ (OrchRecv /\ started /\ NoRebuildTrigger(event')) =>
              /\ pcOrch' = "stop"
              /\ hBuilds' = hBuilds /\ logFile' = logFile
              /\ attempts' = attempts
        /\ RerunOnly =>
              /\ hBuilds' = hBuilds /\ logFile' = logFile
              /\ buildErr' = buildErr /\ event' = event
              /\ BuildProcs = {} /\ BuildProcs' = {}
              /\ (pcOrch = "stop" /\ pcOrch' # "stop") =>
                    /\ pcOrch' = "run"
                    /\ \E i \in 1..Len(targets) :
                         /\ targets[i].listener = "waiting"
                         /\ targets' = [targets EXCEPT ![i].listener = "kill"]
              /\ (pcOrch = "run" /\ pcOrch' # "run") =>
                    /\ pcOrch' = "recv"
                    /\ hRuns' = Bump(hRuns)
                    /\ Len(targets') = Len(targets) + 1
                    /\ targets'[Len(targets')].alive
                    /\ targets'[Len(targets')].listener = "waiting" ]_vars

C11_Witness ==
    /\ Running
    /\ pcOrch = "recv"
    /\ event.name = HtmlFile
    /\ hBuilds = 1 /\ hRuns = 2
    /\ buildErr = "nil"
    /\ logFile = "none"

C13_KilledNeverFatal ==
    (sys = "exit1" /\ pcOrch = "result") => attempts[Cur].proc # "killed"

\* The program has nothing left to do until the next raw event arrives.
AtRest ==
    /\ Running
    /\ pcMain = "block"
    /\ pcDeb = "select" /\ ~timerArmed /\ timerC = 0
    /\ eventsChan = <<>>
    /\ pcOrch = "recv"
    /\ \A i \in 1..Len(attempts) : attempts[i].watcher = "select"

\* C14: when the program is at rest and the last Trigger it handled requires a
\* rebuild, the attempt for that Trigger did not end Killed.
C14_LastTriggerNotLeftKilled ==
    (AtRest /\ event # ZeroEvent /\ ~NoRebuildTrigger(event)) =>
        buildErr # "killed"

\* C15: once Watch() has failed (creating the watcher, walking the tree or
\* registering a directory), main() never gets to Start(): no Trigger is
\* injected and the build-and-run goroutine is never started.
C15_SetupFailureStops ==
    watchErr # "nil" =>
        /\ pcMain \notin {"inject", "block"}
        /\ pcOrch = "none"

\* C16: while the system runs, a failure of cmd.Start() in build() is only
\* ever the result start() is about to act on: start() does not go on after it.
C16_SpawnFailureFatal ==
    (Running /\ buildErr = "spawn") => pcOrch = "result"

\* C17: from the start of the delay to the start of the build subprocess the
\* Trigger start() works on stays the same, the loop only goes on to build(),
\* Triggers that arrive stay pending in eventsChan, and the attempt build()
\* starts is for that Trigger.
C17_DelayKeepsTrigger ==
    [][ (pcOrch \in {"delay", "buildInit"}) =>
          ( /\ event' = event
            /\ pcOrch' \in {pcOrch, IF pcOrch = "delay" THEN "buildInit" ELSE "cmdStart"}
            /\ ( \/ eventsChan' = eventsChan
                 \/ \E e \in {lastEvent, StartupEvent} :
                       eventsChan' = Append(eventsChan, e) )
            /\ ( (pcOrch' = "cmdStart") =>
                   ( /\ attempts'[Len(attempts')].trig = event.id
                     /\ attempts'[Len(attempts')].proc = "notStarted" ) ) )
      ]_vars

C17_Witness ==
    /\ pcOrch = "cmdStart"
    /\ attempts[Cur].trig = event.id
    /\ eventsChan # <<>>
    /\ eventsChan[1].id > event.id

\* The walk is over and Watch() has returned without an error.
ScanDone ==
    /\ pcMain \notin {"newWatcher", "walk"}
    /\ watchErr = "nil"

\* d is a string prefix of path.
IsPrefixOf(d, path) ==
    \E k \in 0..Len(path) : SubSeq(path, 1, k) = d

\* Entry n is skipped for being the temp directory (same absolute path) or for
\* having an entry of DirectoriesToIgnore as a prefix of its path.
SkippedDir(conf, n) ==
    \/ Abs(PathOf(conf, n)) = Abs(conf.TempDir)
    \/ \E k \in 1..Len(conf.DirectoriesToIgnore) :
          IsPrefixOf(conf.DirectoriesToIgnore[k], PathOf(conf, n))

\* Neither entry n nor a directory above it is skipped.
RECURSIVE KeptDir(_, _)
KeptDir(conf, n) ==
    \/ n = 0
    \/ ~SkippedDir(conf, n) /\ KeptDir(conf, Tree[n].parent)

\* C18: after a scan without error the registered directories are exactly the
\* existing directories that are not skipped and lie below no skipped
\* directory; with the temp directory ./tmp, the directory ./temporary and a
\* tmp directory further down are registered and ./tmp and what it holds are not.
C18_WatchedDirectories ==
    ScanDone =>
        /\ watched = { n \in exists : Tree[n].dir /\ KeptDir(Configs[cfgId], n) }
        /\ Configs[cfgId].WorkingDir = DirDot =>
              /\ 8 \in exists => 8 \in watched
              /\ 7 \in exists => 7 \in watched
              /\ watched \cap {5, 9, 10} = {}

C18_Witness ==
    /\ ScanDone
    /\ cfgId = 2
    /\ exists = Entries
    /\ watched = {1, 6, 7, 8}

\* C19: the answer of IsDirectoryToIgnore for a path is true exactly when an
\* entry of DirectoriesToIgnore is a string prefix of the path: .git and
\* .github are ignored for the entry .git, some_source_dir is not ignored.
C19_IgnoreIsPrefixTest ==
    hLastDir.entry # 0 =>
        LET conf == Configs[cfgId]
            path == PathOf(conf, hLastDir.entry)
        IN  /\ hLastDir.ignored <=>
                  \E k \in 1..Len(conf.DirectoriesToIgnore) :
                     IsPrefixOf(conf.DirectoriesToIgnore[k], path)
            /\ path \in {DirGit, DirGithub} => hLastDir.ignored
            /\ path = DirSource => ~hLastDir.ignored

C19_Witness ==
    /\ hLastDir.entry = 4
    /\ hLastDir.ignored
    /\ PathOf(Configs[cfgId], 4) = DirGithub
    /\ 4 \notin watched
    /\ pcMain = "start"

\* C20: while start() handles a Trigger, rebuildRequired is true exactly when
\* the extension of the Trigger's path is not in NoRebuildExtensions: true for
\* "/" and for a .go file, false for a .html file; build() is entered only
\* when it is true, and the binary is run without a successful build only
\* when it is false.
C20_RebuildDecision ==
    pcOrch \notin {"none", "recv"} =>
        /\ rebuildRequired <=> ~NoRebuildTrigger(event)
        /\ event.name \in {StartupName, GoFile} => rebuildRequired
        /\ event.name = HtmlFile => ~rebuildRequired
        /\ pcOrch \in {"delay", "buildInit", "cmdStart", "wait", "result"}
              => rebuildRequired
        /\ (pcOrch \in {"stop", "run"} /\ ~buildSuccessful) => ~rebuildRequired

C20_Witness ==
    /\ pcOrch = "stop"
    /\ event.name = HtmlFile
    /\ ~rebuildRequired
    /\ hBuilds = 1 /\ hRuns = 1

\* C21: the debouncer is never held up at its send on killBuildingChan: it is
\* never at that send with the slot of the channel taken (a request
\* outstanding) and no kill watcher there to receive.
C21_KillSendNeverBlocks ==
    ~ ( /\ Running
        /\ pcDeb = "sendKill"
        /\ Len(killBuildingChan) >= KillChanCap
        /\ \A i \in 1..Len(attempts) : attempts[i].watcher # "select" )

\* C22: while a build subprocess runs without a cancellation signal sent or
\* being acted on, the debouncer is never held up with a rebuild-required
\* Trigger it cannot hand over (the signal is sent only after the Trigger, so
\* such a build can only run to its completion).
C22_RebuildTriggerKillsOngoingBuild ==
    ~ ( /\ Running
        /\ BuildingNow # 0
        /\ attempts[Cur].watcher = "select"
        /\ killBuildingChan = <<>>
        /\ pcDeb = "sendEvent"
        /\ ~NoRebuildTrigger(lastEvent)
        /\ Len(eventsChan) >= EventsChanCap )

\* C26: build() returns nil only for a subprocess that exited with status
\* zero, was not killed and wrote nothing to stderr; exit status zero with
\* output on stderr gives errBuildFailed; and start() goes on to run() after
\* a build only when build() returned nil.
C26_SucceededOnlyIfCleanExit ==
    /\ (pcOrch = "result" /\ buildErr = "nil") =>
          (attempts[Cur].proc = "exit0" /\ ~attempts[Cur].errOut)
    /\ (pcOrch = "result" /\ attempts[Cur].proc = "exit0"
          /\ attempts[Cur].errOut) => buildErr = "output"
    /\ (pcOrch \in {"stop", "run"} /\ ~NoRebuildTrigger(event)) =>
          buildErr = "nil"

C26_Witness ==
    /\ Running
    /\ pcOrch = "recv"
    /\ buildErr = "output"
    /\ started
    /\ hBuilds = 2 /\ hRuns = 1

\* C28: buildCmdRunning is true only while build() is waiting for its
\* subprocess: it is false whenever build() has returned.
C28_FlagOnlyWhileBuilding ==
    buildCmdRunning => pcOrch = "wait"

\* C30: the debouncer never sends, nor is about to send, a cancellation signal
\* for a Trigger of a no-rebuild extension.
C30_NoRebuildTriggerNeverSignals ==
    /\ pcDeb = "sendKill" => ~NoRebuildTrigger(lastEvent)
    /\ \A k \in 1..Len(killBuildingChan) :
          killBuildingChan[k].for # 0
    /\ (nextId = 2 /\ lastEvent.name = HtmlFile) =>
          (pcDeb # "sendKill" /\ killBuildingChan = <<>>
             /\ \A i \in 1..Len(attempts) : ~attempts[i].hGotSig)

C30_Witness ==
    /\ nextId = 2
    /\ lastEvent.name = HtmlFile
    /\ pcOrch = "result"
    /\ buildErr = "nil"
    /\ attempts[Cur].hSuperseded
    /\ pcDeb = "select"
    /\ hLastSent = 1

\* C25 as stated: every Trigger start() receives takes the loop to the build
\* delay first, a Trigger of a no-rebuild extension too.
C25_EveryTriggerDelayed ==
    [][ OrchRecv => pcOrch' = "delay" ]_vars

\* C25: the loop is at the build delay only for a Trigger that requires a
\* rebuild; a Trigger of a no-rebuild extension, once received, is at the stop
\* of the old binary or at run(), never at the delay or in build(); a Trigger
\* that requires a rebuild gets to the stop only through a build.
C25_OnlyRebuildTriggersDelayed ==
    /\ pcOrch = "delay" => (rebuildRequired /\ ~NoRebuildTrigger(event))
    /\ (pcOrch # "recv" /\ NoRebuildTrigger(event)) =>
          (pcOrch \in {"stop", "run"} /\ ~rebuildRequired)
    /\ (pcOrch \in {"stop", "run"} /\ ~NoRebuildTrigger(event)) =>
          (rebuildRequired /\ buildSuccessful /\ hBuilds > 0)

C25_Witness ==
    /\ Running
    /\ pcOrch = "stop"
    /\ NoRebuildTrigger(event)
    /\ ~started
    /\ hBuilds = 0
    /\ logFile = "none"

\* C27: from the call of build() until cmd.Wait() has returned there is no
\* build-error log of an earlier attempt, unless the os.Remove before this
\* build failed; a failed os.Remove does not keep the build from starting.
C27_LogDeletedBeforeBuild ==
    /\ (pcOrch \in {"buildInit", "cmdStart", "wait"} /\ logFile # "none") =>
          hDelFailed
    /\ hDelFailed =>
          (pcOrch \in {"buildInit", "cmdStart", "wait"} /\ logFile # "none")
    /\ pcOrch \in {"cmdStart", "wait"} => logFile # "fresh"

C27_Witness ==
    /\ Running
    /\ BuildingNow # 0
    /\ hDelFailed
    /\ logFile = "stale"

\* C29: a raw event the debouncer drops (chmod-only, or of an extension that
\* is not watched) changes nothing in the debouncer: lastEvent, the quiet
\* timer and the goroutine's position stay as they are, and nothing is sent.
C29_DroppedEventChangesNothing ==
    [][ (nextId' # nextId /\ hLastQual' = hLastQual) =>
            UNCHANGED << lastEvent, timerArmed, timerC, pcDeb, eventsChan,
                         killBuildingChan, hDebEmitted, hFiredFor,
                         hLastSent >> ]_vars

C29_Witness ==
    /\ hLastQual = 1
    /\ nextId = 3
    /\ lastEvent.id = 1
    /\ timerArmed
    /\ timerC = 0
    /\ ~hDebEmitted

\* validate() has returned on the File that hParsed held.
Validated == pcRead \in {"validated", "saved", "failed"}

\* No element of list is in it twice.
NoDuplicate(list) ==
    \A i, j \in 1..Len(list) : list[i] = list[j] => i = j

\* C23 as stated: validate() returns an error exactly when WorkingDir is blank
\* after trimming; when it returns nil, a blank TempDir, an empty
\* ExtensionsToWatch, a negative BuildDelayMilliseconds, a blank BuildName and
\* a blank BuildLogFilename hold the built-in default.
C23_ErrorOnlyForBlankWorkingDir ==
    Validated =>
        /\ validateErr # "nil" <=> TrimSpace(hParsed.WorkingDir) = <<>>
        /\ validateErr = "nil" =>
              /\ TrimSpace(hParsed.TempDir) = <<>> =>
                    cfg.TempDir = newDefaultConfig.TempDir
              /\ hParsed.ExtensionsToWatch = <<>> =>
                    cfg.ExtensionsToWatch = newDefaultConfig.ExtensionsToWatch
              /\ hParsed.BuildDelayMilliseconds < 0 =>
                    cfg.BuildDelayMilliseconds =
                        newDefaultConfig.BuildDelayMilliseconds
              /\ TrimSpace(hParsed.BuildName) = <<>> =>
                    cfg.BuildName = newDefaultConfig.BuildName
              /\ TrimSpace(hParsed.BuildLogFilename) = <<>> =>
                    cfg.BuildLogFilename = newDefaultConfig.BuildLogFilename

\* C23: validate() returns an error exactly when WorkingDir or EntryPoint is
\* blank after trimming. When it returns nil: a blank TempDir, a negative
\* BuildDelayMilliseconds, a blank BuildName and a blank BuildLogFilename hold
\* the built-in default, and a valid one holds the value given (TempDir
\* trimmed); an empty ExtensionsToWatch holds the built-in default list
\* followed by those of the NoRebuildExtensions that the default lacks.
C23_ErrorsAndDefaults ==
    Validated =>
        /\ validateErr = "workingDir" <=> TrimSpace(hParsed.WorkingDir) = <<>>
        /\ validateErr = "entryPoint" <=>
              /\ TrimSpace(hParsed.WorkingDir) # <<>>
              /\ TrimSpace(hParsed.EntryPoint) = <<>>
        /\ validateErr = "nil" =>
              /\ cfg.TempDir =
                    IF TrimSpace(hParsed.TempDir) = <<>>
                    THEN newDefaultConfig.TempDir
                    ELSE TrimSpace(hParsed.TempDir)
              /\ hParsed.ExtensionsToWatch = <<>> =>
                    /\ Len(cfg.ExtensionsToWatch) >=
                          Len(newDefaultConfig.ExtensionsToWatch)
                    /\ \A k \in 1..Len(cfg.ExtensionsToWatch) :
                          IF k <= Len(newDefaultConfig.ExtensionsToWatch)
                          THEN cfg.ExtensionsToWatch[k] =
                                  newDefaultConfig.ExtensionsToWatch[k]
                          ELSE isStringInSlice(cfg.NoRebuildExtensions,
                                               cfg.ExtensionsToWatch[k])
              /\ hParsed.ExtensionsToWatch # <<>> =>
                    cfg.ExtensionsToWatch[1] =
                        TrimSpace(hParsed.ExtensionsToWatch[1])
              /\ cfg.BuildDelayMilliseconds =
                    IF hParsed.BuildDelayMilliseconds < 0
                    THEN newDefaultConfig.BuildDelayMilliseconds
                    ELSE hParsed.BuildDelayMilliseconds
              /\ cfg.BuildName =
                    IF TrimSpace(hParsed.BuildName) = <<>>
                    THEN newDefaultConfig.BuildName
                    ELSE hParsed.BuildName
              /\ cfg.BuildLogFilename =
                    IF TrimSpace(hParsed.BuildLogFilename) = <<>>
                    THEN newDefaultConfig.BuildLogFilename
                    ELSE hParsed.BuildLogFilename

C23_Witness ==
    /\ pcRead = "saved"
    /\ validateErr = "nil"
    /\ hParsed.TempDir = <<" ">>
    /\ hParsed.ExtensionsToWatch = <<>>
    /\ hParsed.NoRebuildExtensions = <<ExtCss>>
    /\ hParsed.BuildDelayMilliseconds < 0
    /\ hParsed.BuildName = <<" ">>
    /\ hParsed.BuildLogFilename = <<>>
    /\ cfg.TempDir = DirTmp
    /\ cfg.ExtensionsToWatch = <<ExtGo, ExtHtml, ExtCss>>
    /\ cfg.BuildDelayMilliseconds = 100
    /\ cfg.BuildName = DefaultBuildName
    /\ cfg.BuildLogFilename = DefaultBuildLogFilename

\* C24: after validate() has returned nil, every extension of
\* NoRebuildExtensions is in ExtensionsToWatch and neither list holds an
\* extension twice.
C24_NoRebuildWatchedNoDuplicates ==
    (Validated /\ validateErr = "nil") =>
        /\ \A k \in 1..Len(cfg.NoRebuildExtensions) :
              isStringInSlice(cfg.ExtensionsToWatch,
                              cfg.NoRebuildExtensions[k])
        /\ NoDuplicate(cfg.NoRebuildExtensions)
        /\ NoDuplicate(cfg.ExtensionsToWatch)

C24_Witness ==
    /\ pcRead = "saved"
    /\ hParsed.ExtensionsToWatch = <<ExtGo, <<" ">> \o ExtGo>>
    /\ hParsed.NoRebuildExtensions = <<ExtCss, ExtCss>>
    /\ cfg.ExtensionsToWatch = <<ExtGo, ExtCss>>
    /\ cfg.NoRebuildExtensions = <<ExtCss>>

\* Stop listeners waiting at <-stopChan.
Waiting == { i \in 1..Len(targets) : targets[i].listener = "waiting" }

\* C31: when start() is at stopChan <- true with started true, exactly one
\* stop listener waits at <-stopChan and it is the one of the binary run()
\* started last; there is never more than one; while started is false there is
\* no binary and no listener.
C31_OneStopListener ==
    /\ Cardinality(Waiting) <= 1
    /\ (pcOrch = "stop" /\ started) => Waiting = {Len(targets)}
    /\ (pcOrch = "run" /\ started) => Waiting = {}
    /\ ~started => targets = <<>>

C31_Witness ==
    /\ Running
    /\ pcOrch = "run"
    /\ started
    /\ hRuns = 1
    /\ Len(targets) = 1
    /\ targets[1].listener = "kill"

\* C32: the kill watcher of an attempt whose build() has returned is not left
\* waiting in its select without a value in cancelKiller to end it.
C32_WatcherEndsWithAttempt ==
    \A i \in 1..Len(attempts) :
        (i # Cur \/ ~InBuild) =>
            ~(attempts[i].watcher = "select" /\ attempts[i].cancelKiller = 0)

\* C33: the kill watcher of an attempt never takes a signal from
\* killBuildingChan, on its way to cmd.Process.Kill(), while build() has not
\* yet called cmd.Start().
C33_NoKillBeforeStart ==
    \A i \in 1..Len(attempts) :
        attempts[i].watcher = "kill" => attempts[i].proc # "notStarted"

\* A Trigger with an id of at least t is on its way to start(): in
\* eventsChan, about to be sent, or due at the next expiry of the quiet timer.
PendingAtLeast(t) ==
    \/ \E k \in 1..Len(eventsChan) : eventsChan[k].id >= t
    \/ pcDeb = "sendEvent" /\ lastEvent.id >= t
    \/ (timerArmed \/ timerC > 0) /\ lastEvent.id >= t

\* C34: the debouncer sends a cancellation signal only for the Trigger it has
\* just handed to eventsChan; and when build() has returned errBuildKilled for
\* an attempt killed by the signal sent for Trigger T, a Trigger at least as
\* new as T is still on its way to start().
C34_KilledAttemptHasSuccessor ==
    /\ pcDeb \in {"checkKill", "sendKill"} => hLastSent = lastEvent.id
    /\ (pcOrch = "result" /\ buildErr = "killed" /\ attempts[Cur].hGotSig) =>
          PendingAtLeast(attempts[Cur].hSigFor)

\* C35: the process never ends because run() could not start the built
\* binary.
C35_RunFailureNotFatal ==
    ~(sys = "exit1" /\ pcOrch = "run")

\* C36: after validate() has returned nil, every extension of
\* ExtensionsToWatch and of NoRebuildExtensions begins with a period.
C36_ExtensionsHaveLeadingPeriod ==
    (Validated /\ validateErr = "nil") =>
        /\ \A k \in 1..Len(cfg.ExtensionsToWatch) :
              HasPrefix(cfg.ExtensionsToWatch[k], <<".">>)
        /\ \A k \in 1..Len(cfg.NoRebuildExtensions) :
              HasPrefix(cfg.NoRebuildExtensions[k], <<".">>)

\* C37: in runner2, shouldRebuild(eventName) is true exactly when the
\* extension of the event's file is not in NoRebuildExtensions, so start()
\* calls build() for the change of a .go file and for the startup event "/",
\* and goes on without build() for the change of a .html file.
MustRebuild(name) ==
    ~isStringInSlice(NoRebuildExtensions,
                     Ext(RemoveAll(SplitFirst(name, ":"), Quote)))

C37_RebuildUnlessNoRebuildExtension ==
    /\ pcStart2 = "decide" => (shouldRebuild(eventName) <=> MustRebuild(eventName))
    /\ pcStart2 = "build" => MustRebuild(eventName)

====
